---- MODULE Spec2Model ----
(***************************************************************************)
(* The client workflow of the building segmentation frontend: the App      *)
(* component's state and handlers (App.tsx), the ImageUpload component's   *)
(* validation and file reading (ImageUpload.tsx) and the remote calls of   *)
(* ApiService (services/api.ts).                                           *)
(*                                                                         *)
(* Every asynchronous handler invocation is a task in `tasks`; its         *)
(* position is the await it is suspended at.  Handlers read the `state`    *)
(* of the render that created them (`rendered`), and write through         *)
(* functional updates of the current `state`.  Updates made in a DOM event *)
(* handler are rendered before the next event; updates made after an await *)
(* or in a FileReader callback are rendered by a later Render step.        *)
(***************************************************************************)
EXTENDS Integers, Sequences, FiniteSets, Bags, TLC

VARIABLES
    state,      \* App.tsx: the AppState held by useState
    rendered,   \* the fields of `state` the current handlers closed over
    preview,    \* ImageUpload.tsx: preview
    fileName,   \* ImageUpload.tsx: fileName
    tasks,      \* bag of suspended handleFile / handleImageUpload / handleCanvasClick invocations
    now,        \* the last value Date.now() returned
    notices,    \* the toasts raised by the last step
    accepted,   \* how many files and how many mask requests were accepted so far
    recentColors, \* ColorPalette: recentColors
    lastChosen  \* history: the color ColorPalette's handleColorSelect was last called with

vars == <<state, rendered, preview, fileName, tasks, now, notices, accepted, recentColors,
          lastChosen>>

----------------------------------------------------------------------------
(* Bounds *)

MaxUploads == 2      \* files accepted in a session
MaxMasks == 2        \* mask requests accepted in a session
MaxInFlight == 2     \* handler invocations suspended at a time
MaxClock == 1        \* largest value the clock reaches
MaxPalette == 9      \* how many of the preset colors the palette is tried with
MaxRecent == 4       \* how many of them when the last choice is recorded

----------------------------------------------------------------------------
(* Values *)

\* null for a File or a file name, which are strings here
Null == "null"
\* null for a text (a preview URL, an error message): texts are tuples of fragments
None == <<>>
Undefined == "undefined"
NoMessage == <<>>

MB == 1024 * 1024

\* the files a user can hand to the upload component, by name
FileInfo ==
    [ photo_jpg |-> [type |-> "image/jpeg", size |-> 2 * MB],
      facade_webp |-> [type |-> "image/webp", size |-> 10 * MB],
      huge_png |-> [type |-> "image/png", size |-> 15 * MB],
      anim_gif |-> [type |-> "image/gif", size |-> 1 * MB] ]

Files == DOMAIN FileInfo

File(name) == [name |-> name, type |-> FileInfo[name].type, size |-> FileInfo[name].size]

Points == {<<100, 150>>}

Colors == {"#FF6B6B", "#4ECDC4"}

PRESET_COLORS ==
    << "#FF6B6B", "#4ECDC4", "#45B7D1", "#96CEB4",
       "#FFEAA7", "#DDA0DD", "#98D8C8", "#F7DC6F",
       "#A8E6CF", "#FF8B94", "#FFC3A0", "#FFAFBD",
       "#C7CEEA", "#F7CAC9", "#92A8D1", "#F7DC6F" >>

\* the swatches the palette is tried with
PaletteColors == {PRESET_COLORS[k] : k \in 1..MaxPalette}

outlineA == <<<<0, 0>>, <<4, 0>>, <<4, 3>>>>
outlineB == <<<<1, 1>>, <<2, 2>>>>

Steps == <<"upload", "select", "color", "download">>

StepIndex(s) == CHOOSE i \in 1..Len(Steps) : Steps[i] = s

Range(s) == {s[i] : i \in 1..Len(s)}

----------------------------------------------------------------------------
(* ImageUpload.tsx *)

validTypes == {"image/jpeg", "image/jpg", "image/png", "image/webp"}

maxSize == 10 * 1024 * 1024

Toast(title, description, variant) ==
    [title |-> title, description |-> description, variant |-> variant]

\* the toast validateFile raises for a file it rejects
validateFileToast(file) ==
    IF file.type \notin validTypes
    THEN Toast("Invalid file type", <<"Please upload a JPEG, PNG, or WebP image.">>, "destructive")
    ELSE Toast("File too large", <<"Please upload an image smaller than 10MB.">>, "destructive")

\* validateFile without the size ceiling
validateFile_NoSizeCheck(file) == file.type \in validTypes

validateFile(file) ==
    IF file.type \notin validTypes THEN FALSE
    ELSE IF file.size > maxSize THEN FALSE
    ELSE TRUE

\* FileReader.readAsDataURL: the data URL of the file's content
readAsDataURL(file) == <<"data:", file.type, ";base64,", file.name>>

----------------------------------------------------------------------------
(* services/api.ts: what a remote call can answer *)

HttpFailure == [kind |-> "http", status |-> "500"]
NetworkFailure == [kind |-> "network"]

UploadResponses ==
    { [kind |-> "json", success |-> TRUE, message |-> NoMessage],
      [kind |-> "json", success |-> FALSE, message |-> <<"unsupported image">>],
      HttpFailure, NetworkFailure }

GenerateMasksResponses ==
    { [kind |-> "json", success |-> TRUE, message |-> NoMessage, masks |-> <<>>],
      [kind |-> "json", success |-> TRUE, message |-> NoMessage,
       masks |-> <<[id |-> 7, coordinates |-> outlineB, color |-> Undefined],
                   [id |-> 8, coordinates |-> outlineA, color |-> Undefined]>>],
      [kind |-> "json", success |-> FALSE, message |-> NoMessage, masks |-> <<>>],
      HttpFailure, NetworkFailure }

\* uploadImage: the promise rejects on a network error and on a non-2xx
\* status, and otherwise resolves to the parsed body
uploadImage(r) ==
    IF r.kind = "network" THEN [threw |-> TRUE, message |-> <<"Failed to fetch">>]
    ELSE IF r.kind = "http"
         THEN [threw |-> TRUE, message |-> <<"Upload failed: ", r.status>>]
         ELSE [threw |-> FALSE, value |-> r]

generateMasks(r) ==
    IF r.kind = "network" THEN [threw |-> TRUE, message |-> <<"Failed to fetch">>]
    ELSE IF r.kind = "http"
         THEN [threw |-> TRUE, message |-> <<"Mask generation failed: ", r.status>>]
         ELSE [threw |-> FALSE, value |-> r]

----------------------------------------------------------------------------
(* App.tsx: state *)

InitialState ==
    [ uploadedImage |-> Null,
      imagePreview |-> None,
      masks |-> <<>>,
      selectedMasks |-> <<>>,
      appliedColors |-> <<>>,
      isProcessing |-> FALSE,
      progress |-> 0,
      error |-> None,
      currentStep |-> "upload" ]

\* what the callbacks of a render close over (their useCallback dependencies)
Closure(s) ==
    [ uploadedImage |-> s.uploadedImage,
      isProcessing |-> s.isProcessing,
      selectedMasks |-> s.selectedMasks,
      appliedColors |-> s.appliedColors ]

Init ==
    /\ state = InitialState
    /\ rendered = Closure(InitialState)
    /\ preview = None
    /\ fileName = Null
    /\ tasks = EmptyBag
    /\ now = 0
    /\ notices = <<>>
    /\ accepted = [upload |-> 0, mask |-> 0]
    /\ recentColors = <<>>
    /\ lastChosen = Null

\* a suspended invocation; stepAtCall and masksAtCall remember currentStep and
\* masks as they were when handleImageUpload or handleCanvasClick was called
Task(kind, pc, i, file, point, s) ==
    [ kind |-> kind, pc |-> pc, i |-> i, file |-> file, point |-> point,
      stepAtCall |-> s.currentStep, masksAtCall |-> s.masks ]

InFlight(kind) == {t \in BagToSet(tasks) : t.kind = kind}

Replace(t, u) == (tasks (-) SetToBag({t})) (+) SetToBag({u})

Remove(t) == tasks (-) SetToBag({t})

\* the overlays with one that belongs to no mask
MaskIds_WithUnknown(masks) == {masks[k].id : k \in 1..Len(masks)} \cup {MaxClock + 1}

MaskIds(masks) == {masks[k].id : k \in 1..Len(masks)}

----------------------------------------------------------------------------
(* App.tsx: the functional updates passed to setState *)

\* a progress update that runs ahead by one step
SetProgress_Overshoots(prev, i) == [prev EXCEPT !.progress = i + 10]

SetProgress(prev, i) == [prev EXCEPT !.progress = i]

\* the acceptance of a file that also starts the session over
UploadAccepted_StartsOver(prev, file, url) ==
    [prev EXCEPT !.uploadedImage = file,
                 !.imagePreview = url,
                 !.masks = <<>>,
                 !.selectedMasks = <<>>,
                 !.appliedColors = <<>>,
                 !.isProcessing = TRUE,
                 !.progress = 0,
                 !.error = None,
                 !.currentStep = "select"]

UploadAccepted(prev, file, url) ==
    [prev EXCEPT !.uploadedImage = file,
                 !.imagePreview = url,
                 !.isProcessing = TRUE,
                 !.progress = 0,
                 !.error = None,
                 !.currentStep = "select"]

\* the success update without clearing the processing flag
UploadSucceeded_KeepsProcessing(prev) == [prev EXCEPT !.progress = 100]

UploadSucceeded(prev) ==
    [prev EXCEPT !.isProcessing = FALSE, !.progress = 100]

\* the failure update that also gives up the file
UploadFailed_DropsImage(prev, message) ==
    [prev EXCEPT !.uploadedImage = Null, !.imagePreview = None,
                 !.isProcessing = FALSE, !.error = message]

\* the failure update without clearing the processing flag
UploadFailed_KeepsProcessing(prev, message) == [prev EXCEPT !.error = message]

UploadFailed(prev, message) ==
    [prev EXCEPT !.isProcessing = FALSE, !.error = message]

MaskRequested(prev) ==
    [prev EXCEPT !.isProcessing = TRUE, !.progress = 0, !.error = None]

\* the success update that puts the new mask first
MaskSucceeded_Prepends(prev, newMask) ==
    [prev EXCEPT !.masks = <<newMask>> \o prev.masks,
                 !.isProcessing = FALSE,
                 !.progress = 100,
                 !.currentStep = "color"]

MaskSucceeded(prev, newMask) ==
    [prev EXCEPT !.masks = Append(prev.masks, newMask),
                 !.isProcessing = FALSE,
                 !.progress = 100,
                 !.currentStep = "color"]

\* the failure update that also falls back to the select stage
MaskFailed_ResetsStep(prev, message) ==
    [prev EXCEPT !.isProcessing = FALSE, !.error = message, !.currentStep = "select"]

MaskFailed(prev, message) ==
    [prev EXCEPT !.isProcessing = FALSE, !.error = message]

\* choosing the color an id already has takes its entry away
ColorsApplied_ClearsOnRepeat(prev, selectedMasks, color) ==
    LET repeated == {id \in Range(selectedMasks) \cap DOMAIN prev.appliedColors :
                        prev.appliedColors[id] = color}
    IN  [prev EXCEPT
            !.appliedColors =
                [id \in (DOMAIN prev.appliedColors \cup Range(selectedMasks)) \ repeated |->
                    IF id \in Range(selectedMasks) THEN color ELSE prev.appliedColors[id]],
            !.currentStep = "download"]

\* the color also written into the selected masks
ColorsApplied_PaintsMasks(prev, selectedMasks, color) ==
    [prev EXCEPT
        !.masks = [k \in 1..Len(prev.masks) |->
                      IF prev.masks[k].id \in Range(selectedMasks)
                      THEN [prev.masks[k] EXCEPT !.color = color] ELSE prev.masks[k]],
        !.appliedColors =
            [id \in DOMAIN prev.appliedColors \cup Range(selectedMasks) |->
                IF id \in Range(selectedMasks) THEN color ELSE prev.appliedColors[id]],
        !.currentStep = "download"]

\* the map rebuilt from the selection alone, without the earlier entries
ColorsApplied_ForgetsOthers(prev, selectedMasks, color) ==
    [prev EXCEPT
        !.appliedColors = [id \in Range(selectedMasks) |-> color],
        !.currentStep = "download"]

\* the color set for the first selected id only
ColorsApplied_FirstOnly(prev, selectedMasks, color) ==
    [prev EXCEPT
        !.appliedColors =
            [id \in DOMAIN prev.appliedColors \cup {selectedMasks[1]} |->
                IF id = selectedMasks[1] THEN color ELSE prev.appliedColors[id]],
        !.currentStep = "download"]

\* newAppliedColors: a copy of prev.appliedColors with every selected id set
ColorsApplied(prev, selectedMasks, color) ==
    [prev EXCEPT
        !.appliedColors =
            [id \in DOMAIN prev.appliedColors \cup Range(selectedMasks) |->
                IF id \in Range(selectedMasks) THEN color ELSE prev.appliedColors[id]],
        !.currentStep = "download"]

includes(s, x) == \E k \in 1..Len(s) : s[k] = x

\* a toggle that also dismisses the error
MaskToggled_ClearsError(prev, maskId) ==
    [prev EXCEPT
        !.selectedMasks =
            IF includes(prev.selectedMasks, maskId)
            THEN SelectSeq(prev.selectedMasks, LAMBDA id : id # maskId)
            ELSE Append(prev.selectedMasks, maskId),
        !.error = None]

\* a toggle that only ever adds
MaskToggled_AlwaysAdds(prev, maskId) ==
    [prev EXCEPT !.selectedMasks = Append(prev.selectedMasks, maskId)]

MaskToggled(prev, maskId) ==
    [prev EXCEPT
        !.selectedMasks =
            IF includes(prev.selectedMasks, maskId)
            THEN SelectSeq(prev.selectedMasks, LAMBDA id : id # maskId)
            ELSE Append(prev.selectedMasks, maskId)]

\* error instanceof Error ? error.message : fallback, for what the try block threw
Thrown(res, fallback) ==
    IF res.threw THEN res.message
    ELSE IF res.value.message # NoMessage THEN res.value.message ELSE fallback

\* the mask built from the last geometry returned instead of the first
NewMask_LastReturned(response, id) ==
    [ id |-> id,
      coordinates |-> IF Len(response.masks) > 0
                      THEN response.masks[Len(response.masks)].coordinates ELSE <<>>,
      color |-> Undefined ]

NewMask(response, id) ==
    [ id |-> id,
      coordinates |-> IF Len(response.masks) > 0 THEN response.masks[1].coordinates ELSE <<>>,
      color |-> Undefined ]

\* the toasts of App.tsx
uploadedToast ==
    Toast("Image uploaded successfully", <<"Your image is ready for processing.">>, "default")

maskGeneratedToast ==
    Toast("Mask generated successfully", <<"Click on the mask to apply colors.">>, "default")

noMaskSelectedToast ==
    Toast("No mask selected", <<"Click on a mask to select it for coloring.">>, "destructive")

colorAppliedToast(color) ==
    Toast("Color applied", <<"Applied ", color, " to selected mask(s).">>, "default")

----------------------------------------------------------------------------
(* ImageUpload.tsx: handleFile and the FileReader callback *)

handleFile(name) ==
    /\ IF ~validateFile(File(name))
       THEN /\ notices' = <<validateFileToast(File(name))>>
            /\ UNCHANGED <<tasks, accepted>>
       ELSE /\ accepted.upload < MaxUploads
            /\ BagCardinality(tasks) < MaxInFlight
            /\ accepted' = [accepted EXCEPT !.upload = @ + 1]
            /\ tasks' = tasks (+) SetToBag({Task("upload", "reading", 0, name, None, InitialState)})
            /\ notices' = <<>>
    /\ UNCHANGED <<state, rendered, preview, fileName, now, recentColors, lastChosen>>

\* reader.onload: setPreview, setFileName, onImageUpload(file, result) up to
\* the first await of handleImageUpload, then the toast
readerOnload(t) ==
    /\ t.kind = "upload" /\ t.pc = "reading"
    /\ preview' = readAsDataURL(File(t.file))
    /\ fileName' = File(t.file).name
    /\ state' = SetProgress(UploadAccepted(state, t.file, readAsDataURL(File(t.file))), 0)
    /\ tasks' = Replace(t, Task("upload", "timer", 0, t.file, None, state))
    /\ notices' = <<Toast("Image uploaded successfully",
                          <<File(t.file).name, " has been uploaded and is ready for processing.">>,
                          "default")>>
    /\ UNCHANGED <<rendered, now, accepted, recentColors, lastChosen>>

handleRemoveImage ==
    /\ preview' = None
    /\ fileName' = Null
    /\ notices' = <<>>
    /\ UNCHANGED <<state, rendered, tasks, now, accepted, recentColors, lastChosen>>

----------------------------------------------------------------------------
(* App.tsx: handleImageUpload after its first await *)

uploadTimer(t) ==
    /\ t.kind = "upload" /\ t.pc = "timer"
    /\ IF t.i + 10 <= 100
       THEN /\ state' = SetProgress(state, t.i + 10)
            /\ tasks' = Replace(t, [t EXCEPT !.i = t.i + 10])
       ELSE /\ state' = state
            /\ tasks' = Replace(t, [t EXCEPT !.pc = "called"])
    /\ notices' = <<>>
    /\ UNCHANGED <<rendered, preview, fileName, now, accepted, recentColors, lastChosen>>

uploadResponse(t, r) ==
    /\ t.kind = "upload" /\ t.pc = "called"
    /\ LET res == uploadImage(r) IN
        IF ~res.threw /\ res.value.success
        THEN /\ state' = UploadSucceeded(state)
             /\ notices' = <<uploadedToast>>
        ELSE /\ state' = UploadFailed(state, Thrown(res, <<"Upload failed">>))
             /\ notices' = <<Toast("Upload failed", Thrown(res, <<"Upload failed">>), "destructive")>>
    /\ tasks' = Remove(t)
    /\ UNCHANGED <<rendered, preview, fileName, now, accepted, recentColors, lastChosen>>

----------------------------------------------------------------------------
(* App.tsx: handleCanvasClick *)

\* handleCanvasClick without the test for a submitted image
handleCanvasClick_NoImageTest(x, y) ==
    IF rendered.isProcessing
    THEN /\ notices' = <<>>
         /\ UNCHANGED <<state, rendered, preview, fileName, tasks, now, accepted, recentColors, lastChosen>>
    ELSE /\ accepted.mask < MaxMasks
         /\ BagCardinality(tasks) < MaxInFlight
         /\ accepted' = [accepted EXCEPT !.mask = @ + 1]
         /\ state' = SetProgress(MaskRequested(state), 0)
         /\ rendered' = [rendered EXCEPT !.isProcessing = TRUE]
         /\ tasks' = tasks (+) SetToBag({Task("mask", "timer", 0, rendered.uploadedImage,
                                              <<x, y>>, state)})
         /\ notices' = <<>>
         /\ UNCHANGED <<preview, fileName, now, recentColors, lastChosen>>

handleCanvasClick(x, y) ==
    IF rendered.uploadedImage = Null \/ rendered.isProcessing
    THEN /\ notices' = <<>>
         /\ UNCHANGED <<state, rendered, preview, fileName, tasks, now, accepted, recentColors, lastChosen>>
    ELSE /\ accepted.mask < MaxMasks
         /\ BagCardinality(tasks) < MaxInFlight
         /\ accepted' = [accepted EXCEPT !.mask = @ + 1]
         /\ state' = SetProgress(MaskRequested(state), 0)
         /\ rendered' = [rendered EXCEPT !.isProcessing = TRUE]
         /\ tasks' = tasks (+) SetToBag({Task("mask", "timer", 0, rendered.uploadedImage,
                                              <<x, y>>, state)})
         /\ notices' = <<>>
         /\ UNCHANGED <<preview, fileName, now, recentColors, lastChosen>>

maskTimer(t) ==
    /\ t.kind = "mask" /\ t.pc = "timer"
    /\ IF t.i + 20 <= 100
       THEN /\ state' = SetProgress(state, t.i + 20)
            /\ tasks' = Replace(t, [t EXCEPT !.i = t.i + 20])
       ELSE /\ state' = state
            /\ tasks' = Replace(t, [t EXCEPT !.pc = "called"])
    /\ notices' = <<>>
    /\ UNCHANGED <<rendered, preview, fileName, now, accepted, recentColors, lastChosen>>

\* clock: what Date.now() returns when the response is handled
maskResponse(t, r, clock) ==
    /\ t.kind = "mask" /\ t.pc = "called"
    /\ LET res == generateMasks(r) IN
        IF ~res.threw /\ res.value.success
        THEN /\ state' = MaskSucceeded(state, NewMask(res.value, clock))
             /\ now' = clock
             /\ notices' = <<maskGeneratedToast>>
        ELSE /\ state' = MaskFailed(state, Thrown(res, <<"Mask generation failed">>))
             /\ now' = now
             /\ notices' = <<Toast("Mask generation failed",
                                   Thrown(res, <<"Mask generation failed">>), "destructive")>>
    /\ tasks' = Remove(t)
    /\ UNCHANGED <<rendered, preview, fileName, accepted, recentColors, lastChosen>>

----------------------------------------------------------------------------
(* App.tsx: handleColorSelect, handleMaskSelect, handleDownload *)

\* handleColorSelect without the test for an empty selection
handleColorSelect_NoGuard(color) ==
    /\ state' = [state EXCEPT !.currentStep = "download"]
    /\ rendered' = rendered
    /\ notices' = <<colorAppliedToast(color)>>
    /\ UNCHANGED <<preview, fileName, tasks, now, accepted>>

handleColorSelect(color) ==
    IF Len(rendered.selectedMasks) = 0
    THEN /\ notices' = <<noMaskSelectedToast>>
         /\ UNCHANGED <<state, rendered, preview, fileName, tasks, now, accepted>>
    ELSE /\ state' = ColorsApplied(state, rendered.selectedMasks, color)
         /\ rendered' = [rendered EXCEPT !.appliedColors = state'.appliedColors]
         /\ notices' = <<colorAppliedToast(color)>>
         /\ UNCHANGED <<preview, fileName, tasks, now, accepted>>

handleMaskSelect(maskId) ==
    /\ state' = MaskToggled(state, maskId)
    /\ rendered' = [rendered EXCEPT !.selectedMasks = state'.selectedMasks]
    /\ notices' = <<>>
    /\ UNCHANGED <<preview, fileName, tasks, now, accepted, recentColors, lastChosen>>

\* the toasts of handleDownload
noColorsAppliedToast ==
    Toast("No colors applied", <<"Apply colors to masks before downloading.">>, "destructive")

downloadStartedToast ==
    Toast("Download started", <<"Preparing your colored image...">>, "default")

downloadCompleteToast ==
    Toast("Download complete", <<"Your colored building segmentation has been downloaded.">>,
          "default")

\* handleDownload without the test for applied colors
handleDownload_NoCheck ==
    /\ notices' = <<downloadStartedToast, downloadCompleteToast>>
    /\ UNCHANGED <<state, rendered, preview, fileName, tasks, now, accepted, recentColors, lastChosen>>

handleDownload ==
    /\ IF DOMAIN rendered.appliedColors = {}
       THEN notices' = <<noColorsAppliedToast>>
       ELSE notices' = <<downloadStartedToast, downloadCompleteToast>>
    /\ UNCHANGED <<state, rendered, preview, fileName, tasks, now, accepted, recentColors, lastChosen>>

----------------------------------------------------------------------------
(* ColorPalette: the recent colors *)

\* prev.filter(c => c !== color)
Without(prev, color) == SelectSeq(prev, LAMBDA c : c # color)

\* filtered.slice(0, n)
slice(s, n) == SubSeq(s, 1, IF Len(s) < n THEN Len(s) ELSE n)

\* the update of recentColors that keeps one entry more
RecentColorAdded_KeepsNine(prev, color) == <<color>> \o slice(Without(prev, color), 8)

\* the update of recentColors without the filter
RecentColorAdded_NoFilter(prev, color) == <<color>> \o slice(prev, 7)

\* [color, ...filtered.slice(0, 7)]
RecentColorAdded(prev, color) == <<color>> \o slice(Without(prev, color), 7)

\* ColorPalette's handleColorSelect: onColorSelect(color), which is the
\* handleColorSelect of App, then the update of recentColors
ColorPalette_handleColorSelect(color) ==
    /\ handleColorSelect(color)
    /\ recentColors' = RecentColorAdded(recentColors, color)

removeRecentColor(colorToRemove) ==
    /\ recentColors' = Without(recentColors, colorToRemove)
    /\ notices' = <<>>
    /\ UNCHANGED <<state, rendered, preview, fileName, tasks, now, accepted, lastChosen>>

----------------------------------------------------------------------------

\* React renders the updates made outside a DOM event handler
Render ==
    /\ rendered # Closure(state)
    /\ rendered' = Closure(state)
    /\ notices' = <<>>
    /\ UNCHANGED <<state, preview, fileName, tasks, now, accepted, recentColors, lastChosen>>

----------------------------------------------------------------------------

ValidFiles == {name \in Files : validateFile(File(name))}

\* The workflow: files that pass validation, canvas clicks, mask selection and
\* color assignment, with every interleaving of timers and remote responses.
Next ==
    \/ \E name \in ValidFiles : handleFile(name)
    \/ \E t \in BagToSet(tasks) : readerOnload(t)
    \/ \E t \in BagToSet(tasks) : uploadTimer(t)
    \/ \E t \in BagToSet(tasks), r \in UploadResponses : uploadResponse(t, r)
    \/ \E p \in Points : handleCanvasClick(p[1], p[2])
    \/ \E t \in BagToSet(tasks) : maskTimer(t)
    \/ \E t \in BagToSet(tasks), r \in GenerateMasksResponses :
          \E clock \in now..(IF now < MaxClock THEN now + 1 ELSE now) : maskResponse(t, r, clock)
    \/ \E c \in Colors : handleColorSelect(c) /\ UNCHANGED <<recentColors, lastChosen>>
    \/ \E id \in MaskIds(state.masks) : handleMaskSelect(id)
    \/ Render

Spec == Init /\ [][Next]_vars

\* The workflow with the calls that are refused or that only notify: every
\* file of Files but the second valid one, the removal of the preview and the
\* download.
NextFeedback ==
    \/ \E name \in Files \ {"facade_webp"} : handleFile(name)
    \/ \E t \in BagToSet(tasks) : readerOnload(t)
    \/ handleRemoveImage
    \/ \E t \in BagToSet(tasks) : uploadTimer(t)
    \/ \E t \in BagToSet(tasks), r \in UploadResponses : uploadResponse(t, r)
    \/ \E p \in Points : handleCanvasClick(p[1], p[2])
    \/ \E t \in BagToSet(tasks) : maskTimer(t)
    \/ \E t \in BagToSet(tasks), r \in GenerateMasksResponses :
          \E clock \in now..(IF now < MaxClock THEN now + 1 ELSE now) : maskResponse(t, r, clock)
    \/ \E c \in Colors : handleColorSelect(c) /\ UNCHANGED <<recentColors, lastChosen>>
    \/ \E id \in MaskIds(state.masks) : handleMaskSelect(id)
    \/ handleDownload
    \/ Render

SpecFeedback == Init /\ [][NextFeedback]_vars

\* The palette on its own: swatches chosen and recent colors removed, in any
\* order.
NextPalette ==
    \/ \E c \in PaletteColors : ColorPalette_handleColorSelect(c) /\ UNCHANGED lastChosen
    \/ \E c \in Range(recentColors) : removeRecentColor(c)

SpecPalette == Init /\ [][NextPalette]_vars

\* The palette with a few swatches and the record of the last choice.
NextRecent ==
    \/ \E c \in {PRESET_COLORS[k] : k \in 1..MaxRecent} :
          ColorPalette_handleColorSelect(c) /\ lastChosen' = c
    \/ \E c \in Range(recentColors) : removeRecentColor(c)

SpecRecent == Init /\ [][NextRecent]_vars

\* The operations that set and clear the processing flag, with one file: every
\* callback that is due (a read that finished, a timer, an answer, a render)
\* eventually runs.
NextLive ==
    \/ handleFile("photo_jpg")
    \/ \E t \in BagToSet(tasks) : readerOnload(t)
    \/ \E t \in BagToSet(tasks) : uploadTimer(t)
    \/ \E t \in BagToSet(tasks), r \in UploadResponses : uploadResponse(t, r)
    \/ \E p \in Points : handleCanvasClick(p[1], p[2])
    \/ \E t \in BagToSet(tasks) : maskTimer(t)
    \/ \E t \in BagToSet(tasks), r \in GenerateMasksResponses :
          \E clock \in now..(IF now < MaxClock THEN now + 1 ELSE now) : maskResponse(t, r, clock)
    \/ Render

SpecLive ==
    /\ Init
    /\ [][NextLive]_vars
    /\ WF_vars(\E t \in BagToSet(tasks) : readerOnload(t))
    /\ WF_vars(\E t \in BagToSet(tasks) : uploadTimer(t))
    /\ WF_vars(\E t \in BagToSet(tasks), r \in UploadResponses : uploadResponse(t, r))
    /\ WF_vars(\E t \in BagToSet(tasks) : maskTimer(t))
    /\ WF_vars(\E t \in BagToSet(tasks), r \in GenerateMasksResponses :
                  \E clock \in now..(IF now < MaxClock THEN now + 1 ELSE now) :
                      maskResponse(t, r, clock))
    /\ WF_vars(Render)

----------------------------------------------------------------------------
(* What the claims are about *)

\* the generateMasks calls that were sent and not yet answered
OutstandingGenerateMasks ==
    BagCardinality([t \in {u \in InFlight("mask") : u.pc = "called"} |-> CopiesIn(t, tasks)])

\* an answer that makes the operation fail: a network error, a non-2xx status
\* or a body with success: false
Failure(r) == r.kind \in {"network", "http"} \/ ~r.success

Raised(toast) == notices = <<toast>>

----------------------------------------------------------------------------
(* C1 *)

\* C1: in every reachable state at most one generateMasks call is outstanding,
\* so a canvas click made while an earlier mask request has not completed
\* sends no request.
C1_AtMostOneGenerateMasksOutstanding == OutstandingGenerateMasks <= 1

----------------------------------------------------------------------------
(* C2 *)

\* C2 as stated: right after a successful upload answer was handled,
\* isProcessing is false, progress is 100 and currentStep is select.
C2_UploadSuccessEndsAtSelect ==
    Raised(uploadedToast) =>
        /\ state.isProcessing = FALSE
        /\ state.progress = 100
        /\ state.currentStep = "select"

\* C2 amended: handling a successful upload answer sets isProcessing to false
\* and progress to 100 and leaves currentStep as it is, which is select or a
\* later stage, never upload.
C2_UploadSuccessKeepsStep ==
    [][Raised(uploadedToast)' =>
          /\ state'.isProcessing = FALSE
          /\ state'.progress = 100
          /\ state'.currentStep = state.currentStep
          /\ state'.currentStep # "upload"]_vars

C2_Witness ==
    /\ Raised(uploadedToast)
    /\ state.currentStep = "select"
    /\ state.uploadedImage = "facade_webp"

----------------------------------------------------------------------------
(* C3 *)

\* a file outside the allow-list of media types or over the ceiling of 10MB
Unacceptable(name) ==
    \/ FileInfo[name].type \notin {"image/jpeg", "image/jpg", "image/png", "image/webp"}
    \/ FileInfo[name].size > 10 * 1024 * 1024

\* C3: handing the upload component a file whose media type is outside the
\* allow-list or whose size exceeds 10MB raises one validation notice and
\* changes nothing else: no field of the application state, not the preview
\* of the upload component, and no invocation that would make a remote call
\* is started.
C3_InvalidFileRejected ==
    [][\A name \in Files :
          (Unacceptable(name) /\ handleFile(name)) =>
              /\ state' = state
              /\ preview' = preview
              /\ fileName' = fileName
              /\ tasks' = tasks
              /\ Len(notices') = 1
              /\ notices'[1].variant = "destructive"
              /\ notices'[1].title \in {"Invalid file type", "File too large"}]_vars

C3_Witness ==
    /\ Len(notices) = 1
    /\ notices[1].title = "File too large"
    /\ preview # None
    /\ state.masks # <<>>

----------------------------------------------------------------------------
(* C4 *)

\* C4: no step moves currentStep backward in upload < select < color < download.
C4_StepNeverMovesBackward ==
    [][StepIndex(state'.currentStep) >= StepIndex(state.currentStep)]_vars

----------------------------------------------------------------------------
(* C5 *)

\* C5: handleColorSelect called while no mask is selected raises the
\* destructive "No mask selected" notice and changes no field of the state.
C5_EmptySelectionRejected ==
    [][\A c \in Colors :
          (state.selectedMasks = <<>> /\ handleColorSelect(c)) =>
              /\ state' = state
              /\ notices' = <<noMaskSelectedToast>>]_vars

C5_Witness ==
    /\ Raised(noMaskSelectedToast)
    /\ state.selectedMasks = <<>>
    /\ DOMAIN state.appliedColors # {}

----------------------------------------------------------------------------
(* C6 *)

\* C6: handleColorSelect(c) with the non-empty selection S maps every id of S
\* to c in appliedColors, keeps the entry of every id outside S, and sets
\* currentStep to download.
C6_ColorAssignedToSelection ==
    [][\A c \in Colors :
          (state.selectedMasks # <<>> /\ handleColorSelect(c)) =>
              LET S == Range(state.selectedMasks) IN
              /\ DOMAIN state'.appliedColors = DOMAIN state.appliedColors \cup S
              /\ \A id \in S : state'.appliedColors[id] = c
              /\ \A id \in DOMAIN state.appliedColors \ S :
                    state'.appliedColors[id] = state.appliedColors[id]
              /\ state'.currentStep = "download"]_vars

C6_Witness ==
    /\ \E c \in Colors : Raised(colorAppliedToast(c))
    /\ Len(state.selectedMasks) = 2
    /\ \A id \in Range(state.selectedMasks) :
          state.appliedColors[id] = "#4ECDC4"

\* a color assignment that leaves the entry of an unselected id alone
C6_WitnessOutside ==
    /\ Raised(colorAppliedToast("#4ECDC4"))
    /\ \E id \in DOMAIN state.appliedColors :
          /\ id \notin Range(state.selectedMasks)
          /\ state.appliedColors[id] = "#FF6B6B"

----------------------------------------------------------------------------
(* C7 *)

\* the identifiers handleMaskSelect is tried with
IdInputs == 0..MaxClock

Toggle(selectedMasks, id) ==
    MaskToggled([state EXCEPT !.selectedMasks = selectedMasks], id).selectedMasks

\* C7 as stated: toggling an id twice returns selectedMasks to its value.
C7_ToggleTwiceRestoresArray ==
    \A id \in IdInputs :
        Toggle(Toggle(state.selectedMasks, id), id) = state.selectedMasks

\* C7 amended: toggling an id once flips the membership of that id and of no
\* other; toggling it twice returns the same set of identifiers, and the same
\* array when the id was not selected (a selected id ends up last).
C7_ToggleTwiceRestoresSet ==
    \A id \in IdInputs :
        LET sel == state.selectedMasks
            once == Toggle(sel, id)
            twice == Toggle(once, id)
        IN  /\ Range(once) = IF id \in Range(sel) THEN Range(sel) \ {id}
                                                  ELSE Range(sel) \cup {id}
            /\ Cardinality(Range(once)) = Len(once)
            /\ Range(twice) = Range(sel)
            /\ Len(twice) = Len(sel)
            /\ id \notin Range(sel) => twice = sel
            /\ id \in Range(sel) => twice[Len(twice)] = id

C7_Witness ==
    /\ Len(state.selectedMasks) = 2
    /\ state.selectedMasks[1] # state.selectedMasks[2]

----------------------------------------------------------------------------
(* C8 *)

\* the message the catch block of handleImageUpload records for an answer
UploadError(r) == Thrown(uploadImage(r), <<"Upload failed">>)

\* C8: when the upload answer is a failure, handling it sets isProcessing to
\* false, records the error message, and currentStep is what it was before
\* handleImageUpload was called.
C8_UploadFailureRestoresStep ==
    [][\A t \in BagToSet(tasks), r \in UploadResponses :
          (Failure(r) /\ uploadResponse(t, r)) =>
              /\ state'.isProcessing = FALSE
              /\ state'.error = UploadError(r)
              /\ state'.currentStep = t.stepAtCall]_vars

----------------------------------------------------------------------------
(* C9 *)

\* the outline of the first mask of an answer, empty when it has none
FirstOutline(r) == IF r.masks = <<>> THEN <<>> ELSE r.masks[1].coordinates

\* C9: handling a successful generateMasks answer appends exactly one mask at
\* the end of masks, with the outline of the first mask of the answer (empty
\* when the answer has none) and no color, keeps the earlier masks as they
\* are, and sets currentStep to color, isProcessing to false, progress to 100.
C9_MaskAppended ==
    [][\A t \in BagToSet(tasks), r \in GenerateMasksResponses :
          \A clock \in 0..MaxClock + 1 :
              (~Failure(r) /\ maskResponse(t, r, clock)) =>
                  /\ Len(state'.masks) = Len(state.masks) + 1
                  /\ SubSeq(state'.masks, 1, Len(state.masks)) = state.masks
                  /\ state'.masks[Len(state'.masks)] =
                        [id |-> clock, coordinates |-> FirstOutline(r), color |-> Undefined]
                  /\ state'.currentStep = "color"
                  /\ state'.isProcessing = FALSE
                  /\ state'.progress = 100]_vars

C9_Witness ==
    /\ Raised(maskGeneratedToast)
    /\ Len(state.masks) = 2
    /\ state.masks[1].coordinates = <<>>
    /\ state.masks[2].coordinates = outlineB

----------------------------------------------------------------------------
(* C10 *)

\* the message the catch block of handleCanvasClick records for an answer
MaskError(r) == Thrown(generateMasks(r), <<"Mask generation failed">>)

\* C10 as stated: when the generateMasks answer is a failure, handling it
\* records the error, sets isProcessing to false, and masks and currentStep
\* are what they were before the call.
C10_MaskFailureRestoresCallState ==
    [][\A t \in BagToSet(tasks), r \in GenerateMasksResponses :
          (Failure(r) /\ maskResponse(t, r, now)) =>
              /\ state'.error = MaskError(r)
              /\ state'.isProcessing = FALSE
              /\ state'.masks = t.masksAtCall
              /\ state'.currentStep = t.stepAtCall]_vars

\* C10 amended: no step of a mask request that fails changes masks or
\* currentStep (not the accepted click, not a progress timer, not the
\* handling of the failure), and the handling of the failure records the
\* error and sets isProcessing to false.
C10_MaskFailureKeepsMasksAndStep ==
    [][/\ \A t \in BagToSet(tasks), r \in GenerateMasksResponses :
             (Failure(r) /\ maskResponse(t, r, now)) =>
                 /\ state'.error = MaskError(r)
                 /\ state'.isProcessing = FALSE
                 /\ state'.masks = state.masks
                 /\ state'.currentStep = state.currentStep
       /\ \A t \in BagToSet(tasks) :
             maskTimer(t) =>
                 /\ state'.masks = state.masks
                 /\ state'.currentStep = state.currentStep
       /\ \A p \in Points :
             handleCanvasClick(p[1], p[2]) =>
                 /\ state'.masks = state.masks
                 /\ state'.currentStep = state.currentStep]_vars

C10_Witness ==
    /\ Len(notices) = 1
    /\ notices[1].title = "Mask generation failed"
    /\ state.error = <<"Mask generation failed: ", "500">>
    /\ state.masks # <<>>
    /\ state.currentStep = "download"

----------------------------------------------------------------------------
(* C11 *)

\* C11: handleCanvasClick called while no image has been submitted
\* (uploadedImage is null) changes no field of the state, drives no progress
\* and starts no invocation that would make a remote call.
C11_ClickWithoutImageIsNoOp ==
    [][\A p \in Points :
          (state.uploadedImage = Null /\ handleCanvasClick(p[1], p[2])) =>
              /\ state' = state
              /\ tasks' = tasks
              /\ accepted' = accepted
              /\ notices' = <<>>]_vars

\* no image submitted yet, a file is being read, and the click is possible
C11_Witness ==
    /\ state.uploadedImage = Null
    /\ \E t \in BagToSet(tasks) : t.pc = "reading"
    /\ ~state.isProcessing
    /\ accepted.mask = 0
    /\ notices = <<>>

----------------------------------------------------------------------------
(* C12 *)

\* C12: handleDownload raises the destructive "No colors applied" notice and
\* no other when appliedColors is empty, raises the two download notices and
\* no destructive one when appliedColors is not empty, and in both cases
\* changes no field of the state.
C12_DownloadNotifies ==
    [][handleDownload =>
          /\ state' = state
          /\ DOMAIN state.appliedColors = {} =>
                /\ notices' = <<noColorsAppliedToast>>
                /\ notices'[1].variant = "destructive"
          /\ DOMAIN state.appliedColors # {} =>
                /\ notices' = <<downloadStartedToast, downloadCompleteToast>>
                /\ \A k \in 1..Len(notices') : notices'[k].variant # "destructive"]_vars

C12_Witness ==
    /\ notices = <<downloadStartedToast, downloadCompleteToast>>
    /\ DOMAIN state.appliedColors # {}
    /\ state.currentStep = "download"

----------------------------------------------------------------------------
(* C13 *)

\* C13: after any sequence of color choices and removals the recent colors
\* are at most 8; a choice puts the chosen color first and keeps the others
\* in their order, so the list runs from the most to the least recently
\* chosen; nothing is dropped unless the list is full and the color is new,
\* and then the last entry, the least recently chosen one, is dropped.
C13_RecentColorsBounded ==
    [][/\ Len(recentColors') <= 8
       /\ \A c \in PaletteColors :
             (/\ recentColors' # <<>>
              /\ recentColors'[1] = c
              /\ ColorPalette_handleColorSelect(c)) =>
                 IF Len(recentColors) = 8 /\ c \notin Range(recentColors)
                 THEN /\ Tail(recentColors') = SubSeq(recentColors, 1, 7)
                      /\ recentColors[8] \notin Range(recentColors')
                 ELSE Tail(recentColors') = Without(recentColors, c)
       /\ \A c \in Range(recentColors) \ Range(recentColors') :
             removeRecentColor(c) => recentColors' = Without(recentColors, c)]_vars

\* the list is full again after a ninth color was chosen
C13_Witness ==
    /\ Len(recentColors) = 8
    /\ recentColors[1] = PRESET_COLORS[9]
    /\ recentColors[8] = PRESET_COLORS[2]
    /\ PRESET_COLORS[1] \notin Range(recentColors)

----------------------------------------------------------------------------
(* C14 *)

\* C14: every failure of a remote call (a network error, a non-2xx status,
\* a body with success: false) reaches the caller of uploadImage and of
\* generateMasks as a rejected promise, never as a returned value.
C14_FailuresAreRejections ==
    [][/\ \A t \in BagToSet(tasks), r \in UploadResponses :
             (Failure(r) /\ uploadResponse(t, r)) => uploadImage(r).threw
       /\ \A t \in BagToSet(tasks), r \in GenerateMasksResponses :
             (Failure(r) /\ maskResponse(t, r, now)) => generateMasks(r).threw]_vars

----------------------------------------------------------------------------
(* C15 *)

\* C15: in every reachable state the masks have pairwise distinct ids.
C15_MaskIdsDistinct ==
    \A j, k \in 1..Len(state.masks) :
        j # k => state.masks[j].id # state.masks[k].id

----------------------------------------------------------------------------
(* C16 *)

\* C16: every change of currentStep goes from a stage to the next one of
\* upload, select, color, download.
C16_StepNeverSkips ==
    [][state'.currentStep # state.currentStep =>
          StepIndex(state'.currentStep) = StepIndex(state.currentStep) + 1]_vars

----------------------------------------------------------------------------
(* C17 *)

\* the ids of the masks created so far
CreatedIds == {state.masks[k].id : k \in 1..Len(state.masks)}

\* C17: in every reachable state every id of selectedMasks is the id of a
\* mask of masks.
C17_SelectionWithinMasks == Range(state.selectedMasks) \subseteq CreatedIds

C17_Witness ==
    /\ state.selectedMasks = <<1>>
    /\ Len(state.masks) = 2
    /\ state.masks[1].id = 0

----------------------------------------------------------------------------
(* C18 *)

\* C18: every key of appliedColors is the id of a mask of masks and maps to
\* one color; the map changes only when a color is assigned, which gives
\* the color to the selected ids and keeps every other entry, so each key
\* holds the color most recently assigned to it.
C18_AppliedColorsLastWriteWins ==
    [][/\ DOMAIN state'.appliedColors \subseteq
             {state'.masks[k].id : k \in 1..Len(state'.masks)}
       /\ \A id \in DOMAIN state'.appliedColors : state'.appliedColors[id] \in Colors
       /\ \/ state'.appliedColors = state.appliedColors
          \/ \E c \in Colors :
                /\ handleColorSelect(c)
                /\ DOMAIN state.appliedColors \subseteq DOMAIN state'.appliedColors
                /\ \A id \in DOMAIN state'.appliedColors :
                      state'.appliedColors[id] =
                          IF includes(state.selectedMasks, id) THEN c
                          ELSE state.appliedColors[id]]_vars

\* two masks colored differently: the second assignment kept the first entry
C18_Witness ==
    /\ DOMAIN state.appliedColors = {0, 1}
    /\ state.appliedColors[0] = "#FF6B6B"
    /\ state.appliedColors[1] = "#4ECDC4"
    /\ Raised(colorAppliedToast("#4ECDC4"))

----------------------------------------------------------------------------
(* C19 *)

\* C19: in every reachable state, the ones between the timers of an upload
\* or of a mask request included, progress is an integer from 0 to 100.
C19_ProgressWithinRange == state.progress \in 0..100

C19_Witness ==
    /\ state.isProcessing
    /\ state.progress = 60
    /\ \E t \in BagToSet(tasks) : t.kind = "mask" /\ t.pc = "timer" /\ t.i = 60

----------------------------------------------------------------------------
(* C20 *)

\* the fields of the state a failed operation is to leave as they were
RolledBack == {"uploadedImage", "imagePreview", "masks", "selectedMasks", "appliedColors",
               "isProcessing", "progress", "currentStep"}

\* C20: after the answer to an upload or to a mask request was handled as a
\* failure, the fields other than error are what they were when the
\* operation was invoked: masks and currentStep as the invocation recorded
\* them, and every field as in the initial state when the operation was
\* invoked at the upload stage (the state is the initial one until a file is
\* accepted).
C20_FailureRollsBack ==
    [][/\ \A t \in BagToSet(tasks), r \in UploadResponses :
             (Failure(r) /\ uploadResponse(t, r)) =>
                 /\ state'.masks = t.masksAtCall
                 /\ state'.currentStep = t.stepAtCall
                 /\ t.stepAtCall = "upload" =>
                       \A f \in RolledBack : state'[f] = InitialState[f]
       /\ \A t \in BagToSet(tasks), r \in GenerateMasksResponses :
             (Failure(r) /\ maskResponse(t, r, now)) =>
                 /\ state'.masks = t.masksAtCall
                 /\ state'.currentStep = t.stepAtCall
                 /\ t.stepAtCall = "upload" =>
                       \A f \in RolledBack : state'[f] = InitialState[f]]_vars

----------------------------------------------------------------------------
(* C21 *)

\* an error is on record: a failure was handled and nothing was accepted since
FailureHandled == state.error # None

\* the handling of a failed answer leaves isProcessing false
FailureClearsProcessing ==
    /\ \A t \in BagToSet(tasks), r \in UploadResponses :
          (Failure(r) /\ uploadResponse(t, r)) => ~state'.isProcessing
    /\ \A t \in BagToSet(tasks), r \in GenerateMasksResponses :
          (Failure(r) /\ maskResponse(t, r, now)) => ~state'.isProcessing

\* a file that is read starts an upload, whatever happened before
SubmitAccepted ==
    \A t \in BagToSet(tasks) :
        readerOnload(t) =>
            /\ state'.isProcessing
            /\ \E u \in BagToSet(tasks') : u.kind = "upload" /\ u.pc = "timer"

\* the click starts a mask request
ClickAccepted(p) ==
    handleCanvasClick(p[1], p[2]) =>
        /\ state'.isProcessing
        /\ BagCardinality(tasks') = BagCardinality(tasks) + 1

\* every accepted operation gets to its remote call and is answered; the
\* flag is false when the answer was handled
EventuallyIdle ==
    /\ (\E t \in BagToSet(tasks) : t.pc = "timer") ~> (\E t \in BagToSet(tasks) : t.pc = "called")
    /\ state.isProcessing ~> ~state.isProcessing

----------------------------------------------------------------------------
(* C22 *)

\* C22: no step deletes or reorders a mask: the masks before a step are a
\* prefix of the masks after it, and so of the masks of every later state.
C22_MasksOnlyGrow ==
    [][/\ Len(state.masks) <= Len(state'.masks)
       /\ SubSeq(state'.masks, 1, Len(state.masks)) = state.masks]_vars

\* two masks made for the first image are still there, in their order, after
\* the second image was uploaded
C22_Witness ==
    /\ Raised(uploadedToast)
    /\ accepted.upload = 2
    /\ tasks = EmptyBag
    /\ Len(state.masks) = 2
    /\ state.masks[1].coordinates = outlineB
    /\ state.masks[2].coordinates = <<>>

----------------------------------------------------------------------------
(* C23 *)

\* C23: the upload request is sent before the progress loop of
\* handleImageUpload has brought progress to 100: an upload that is waiting
\* for its answer was sent with the loop counter below 100.
C23_UploadSentBeforeProgressComplete ==
    \A t \in InFlight("upload") : t.pc = "called" => t.i < 100

----------------------------------------------------------------------------
(* C24 *)

\* the operations that were accepted and have not finished
Unfinished == {t \in BagToSet(tasks) : t.pc \in {"timer", "called"}}

\* C24: in every reachable state isProcessing is true exactly when an
\* accepted upload or mask request has not finished yet.
C24_ProcessingIffUnfinished == state.isProcessing <=> Unfinished # {}

----------------------------------------------------------------------------
(* C25 *)

\* C25: the acceptance of a file leaves masks, selectedMasks and
\* appliedColors as they are, and the successful answer to a mask request
\* made for an earlier image is appended to masks all the same.
C25_UploadKeepsMasksAndColors ==
    [][/\ \A t \in BagToSet(tasks) :
             readerOnload(t) =>
                 /\ state'.masks = state.masks
                 /\ state'.selectedMasks = state.selectedMasks
                 /\ state'.appliedColors = state.appliedColors
       /\ \A t \in BagToSet(tasks), r \in GenerateMasksResponses :
             \A clock \in 0..MaxClock :
                 (/\ ~Failure(r)
                  /\ t.file # state.uploadedImage
                  /\ maskResponse(t, r, clock)) =>
                     /\ Len(state'.masks) = Len(state.masks) + 1
                     /\ state'.masks[Len(state'.masks)].id = clock]_vars

\* the second image was accepted with a mask, a selection and a color of the
\* first still there, and a mask request for the first image is in flight
C25_Witness ==
    /\ state.uploadedImage = "facade_webp"
    /\ \E t \in InFlight("mask") : t.file = "photo_jpg" /\ t.pc = "called"
    /\ Len(state.masks) = 1
    /\ state.selectedMasks # <<>>
    /\ DOMAIN state.appliedColors # {}

----------------------------------------------------------------------------
(* C26 *)

----------------------------------------------------------------------------
(* C27 *)

\* C27: no step takes a key out of appliedColors, so once appliedColors is
\* not empty, which is what handleDownload asks for, it never is again.
C27_AppliedColorsKeepsKeys ==
    [][/\ DOMAIN state.appliedColors \subseteq DOMAIN state'.appliedColors
       /\ DOMAIN state.appliedColors # {} => DOMAIN state'.appliedColors # {}]_vars

\* a colored mask kept its color through a later mask request
C27_Witness ==
    /\ Raised(maskGeneratedToast)
    /\ Len(state.masks) = 2
    /\ DOMAIN state.appliedColors = {state.masks[1].id}
    /\ state.masks[2].id # state.masks[1].id

----------------------------------------------------------------------------
(* C28 *)

\* C28: no step changes a mask that is in masks, and the color field of
\* every mask is unset in every reachable state: a color is recorded in
\* appliedColors only.
C28_MasksCarryNoColor ==
    [][/\ \A k \in 1..Len(state.masks) :
             k <= Len(state'.masks) /\ state'.masks[k] = state.masks[k]
       /\ \A k \in 1..Len(state'.masks) : state'.masks[k].color = Undefined]_vars

C28_Witness ==
    /\ \E c \in Colors : Raised(colorAppliedToast(c))
    /\ Len(state.masks) = 1
    /\ state.masks[1].id \in DOMAIN state.appliedColors
    /\ state.masks[1].color = Undefined

----------------------------------------------------------------------------
(* C29 *)

\* a file is accepted, or a click is
Acceptance ==
    \/ \E t \in BagToSet(tasks) : readerOnload(t)
    \/ \E p \in Points : handleCanvasClick(p[1], p[2]) /\ tasks' # tasks

\* the answer to an upload or to a mask request is handled as a failure
FailureHandling ==
    \/ \E t \in BagToSet(tasks), r \in UploadResponses : Failure(r) /\ uploadResponse(t, r)
    \/ \E t \in BagToSet(tasks), r \in GenerateMasksResponses :
          Failure(r) /\ maskResponse(t, r, now)

\* C29: the error field is cleared by the acceptance of a file or of a click
\* and by nothing else, and is otherwise changed only by the handling of a
\* failure; a toggle, a color assignment, a download, a refused file and a
\* refused click leave it as it is.
C29_ErrorPersistsUntilAccepted ==
    [][state'.error # state.error =>
          /\ IF state'.error = None THEN Acceptance ELSE FailureHandling
          /\ ~\E id \in CreatedIds : handleMaskSelect(id)
          /\ ~\E c \in Colors : handleColorSelect(c)
          /\ ~handleDownload
          /\ ~\E name \in Files : handleFile(name)
          /\ ~\E p \in Points : handleCanvasClick(p[1], p[2]) /\ tasks' = tasks]_vars

\* the error of a failed mask request is still on record after a toggle and
\* a color assignment
C29_Witness ==
    /\ state.error = <<"Mask generation failed: ", "500">>
    /\ Raised(colorAppliedToast("#FF6B6B"))
    /\ state.currentStep = "download"

----------------------------------------------------------------------------
(* C30 *)

\* no color is listed twice
NoDuplicate(s) == Cardinality(Range(s)) = Len(s)

\* choosing a color that is listed moves it to the front: same length, same
\* colors, the others in their order
RechoosingMovesToFront ==
    \A c \in Range(recentColors) :
        ColorPalette_handleColorSelect(c) =>
            /\ Len(recentColors') = Len(recentColors)
            /\ recentColors' = <<c>> \o Without(recentColors, c)

\* C30 as stated: after any sequence of choices and removals the list has
\* no duplicate and its first entry is the color chosen last, and choosing a
\* listed color moves it to the front without changing the length.
C30_FirstIsLastChosen ==
    [][/\ NoDuplicate(recentColors')
       /\ lastChosen' # Null =>
             recentColors' # <<>> /\ recentColors'[1] = lastChosen'
       /\ RechoosingMovesToFront]_vars

\* C30 amended: the list has no duplicate; right after a choice its first
\* entry is the chosen color, and the color chosen last stays first for as
\* long as it is listed; a removal takes out the one color and keeps the
\* others in their order, so that after the removal of the color chosen last
\* the first entry, if there is one, is an earlier choice; choosing a
\* listed color moves it to the front without changing the length.
C30_FirstIsLastChosenWhileListed ==
    [][/\ NoDuplicate(recentColors')
       /\ lastChosen' # lastChosen => recentColors'[1] = lastChosen'
       /\ (recentColors' # <<>> /\ lastChosen' \in Range(recentColors')) =>
             recentColors'[1] = lastChosen'
       /\ \A c \in Range(recentColors) :
             removeRecentColor(c) => recentColors' = Without(recentColors, c)
       /\ RechoosingMovesToFront]_vars

\* the color chosen last was removed and two earlier choices remain
C30_Witness ==
    /\ lastChosen = PRESET_COLORS[3]
    /\ recentColors = <<PRESET_COLORS[2], PRESET_COLORS[1]>>

====
